---- MODULE Spec2Model ----
(***************************************************************************)
(* Model of the document processing pipeline of ml-document-system         *)
(* (src/processor/pipeline.py, src/processor/utils.py,                     *)
(* src/processor/config.py).                                               *)
(*                                                                         *)
(* Texts are TLA+ strings; a character is a string of length 1.            *)
(***************************************************************************)
EXTENDS Integers, Sequences, FiniteSets, TLC

VARIABLES
    ner_pipeline,   \* self.ner_pipeline is not None (the NER model was loaded)
    collection,     \* the "documents" collection of the vector store: id -> entry
    json_file,      \* output/results.json: the list it holds (<<>> before the first write)
    csv_file,       \* output/summary.csv: its rows
    temp_files,     \* the files the upload endpoint has created and not removed
    batch,          \* the running process_documents call: its position and locals
    last,           \* the call that completed last: its inputs, outcome and return value
    probe           \* the call under test of a pure function: its inputs and outputs

vars ==
    <<ner_pipeline, collection, json_file, csv_file, temp_files, batch, last, probe>>

(***************************************************************************)
(* Characters and Python's str / re primitives                             *)
(***************************************************************************)
Char(s, i) == SubSeq(s, i, i)

CharsOf(s) == {Char(s, i) : i \in 1..Len(s)}

LowerLetters == CharsOf("abcdefghijklmnopqrstuvwxyz")

UpperLetters == CharsOf("ABCDEFGHIJKLMNOPQRSTUVWXYZ")

Digits == CharsOf("0123456789")

\* \s of Python's re on str (ASCII part)
SpaceChars == {" ", "\t", "\n", "\r", "\f"}

IsSpace(c) == c \in SpaceChars

\* \w of Python's re on str (ASCII part)
IsWord(c) == c \in LowerLetters \cup UpperLetters \cup Digits \cup {"_"}

\* str.strip(): leading and trailing whitespace removed
RECURSIVE LStrip(_)
LStrip(s) ==
    IF Len(s) > 0 /\ IsSpace(Char(s, 1)) THEN LStrip(SubSeq(s, 2, Len(s))) ELSE s

RECURSIVE RStrip(_)
RStrip(s) ==
    IF Len(s) > 0 /\ IsSpace(Char(s, Len(s))) THEN RStrip(SubSeq(s, 1, Len(s) - 1)) ELSE s

Strip(s) == RStrip(LStrip(s))

\* re.sub(r'\s+', ' ', s): every maximal run of whitespace becomes one space
RECURSIVE CollapseWhitespace(_)
CollapseWhitespace(s) ==
    IF Len(s) = 0 THEN ""
    ELSE IF IsSpace(Char(s, 1))
         THEN " " \o CollapseWhitespace(LStrip(s))
         ELSE Char(s, 1) \o CollapseWhitespace(SubSeq(s, 2, Len(s)))

\* the characters the class [^\w\s.,!?;:()\-$@] does not match
IsAllowed(c) ==
    IsWord(c) \/ IsSpace(c) \/ c \in {".", ",", "!", "?", ";", ":", "(", ")", "-", "$", "@"}

\* re.sub(r'[^\w\s.,!?;:()\-$@]', '', s)
RECURSIVE RemoveSpecial(_)
RemoveSpecial(s) ==
    IF Len(s) = 0 THEN ""
    ELSE (IF IsAllowed(Char(s, 1)) THEN Char(s, 1) ELSE "")
             \o RemoveSpecial(SubSeq(s, 2, Len(s)))

\* str.split(sep) for a one-character separator: a sequence of strings
RECURSIVE SplitOn(_, _, _)
SplitOn(s, sep, cur) ==
    IF Len(s) = 0 THEN <<cur>>
    ELSE IF Char(s, 1) = sep
         THEN <<cur>> \o SplitOn(SubSeq(s, 2, Len(s)), sep, "")
         ELSE SplitOn(SubSeq(s, 2, Len(s)), sep, cur \o Char(s, 1))

Split(s, sep) == SplitOn(s, sep, "")

\* sep.join(parts)
RECURSIVE Join(_, _)
Join(parts, sep) ==
    IF Len(parts) = 0 THEN ""
    ELSE IF Len(parts) = 1 THEN parts[1]
    ELSE parts[1] \o sep \o Join(Tail(parts), sep)

(***************************************************************************)
(* processor/utils.py: clean_text                                          *)
(***************************************************************************)
MinLineLen == 2

KeepLine(line) == Len(Strip(line)) > MinLineLen

\* [line.strip() for line in lines if len(line.strip()) > 2]
RECURSIVE StrippedLongLines(_)
StrippedLongLines(lines) ==
    IF Len(lines) = 0 THEN <<>>
    ELSE (IF KeepLine(lines[1]) THEN <<Strip(lines[1])>> ELSE <<>>)
             \o StrippedLongLines(Tail(lines))

clean_text(text) ==
    IF text = "" THEN ""
    ELSE LET t1 == CollapseWhitespace(text)
             t2 == RemoveSpecial(t1)
             lines == StrippedLongLines(Split(t2, "\n"))
         IN  Strip(Join(lines, " "))

(***************************************************************************)
(* processor/config.py: DOCUMENT_CATEGORIES                                *)
(***************************************************************************)
DOCUMENT_CATEGORIES ==
    <<"advertisement", "budget", "email", "file_folder", "form", "handwritten",
      "invoice", "letter", "memo", "news_article", "presentation", "questionnaire",
      "resume", "scientific_publication", "scientific_report", "specification">>

\* x in DOCUMENT_CATEGORIES
InCategories(x) == \E i \in 1..Len(DOCUMENT_CATEGORIES) : DOCUMENT_CATEGORIES[i] = x

(***************************************************************************)
(* processor/pipeline.py: DocumentPipeline._classify_document              *)
(***************************************************************************)
\* str.lower() on ASCII
LowerChar(c) ==
    IF c \in UpperLetters
    THEN LET i == CHOOSE k \in 1..26 : Char("ABCDEFGHIJKLMNOPQRSTUVWXYZ", k) = c
         IN  Char("abcdefghijklmnopqrstuvwxyz", i)
    ELSE c

RECURSIVE Lower(_)
Lower(s) == IF Len(s) = 0 THEN "" ELSE LowerChar(Char(s, 1)) \o Lower(SubSeq(s, 2, Len(s)))

\* word in text: word occurs in text as a substring
Occurs(word, text) ==
    \E i \in 1..(Len(text) - Len(word) + 1) : SubSeq(text, i, i + Len(word) - 1) = word

\* any(word in text for word in words)
AnyOccurs(words, text) == \E w \in words : Occurs(w, text)

\* os.sep on the platforms the pipeline runs on
PathSep == "/"

InvoiceKeywords == {"invoice", "bill", "payment", "amount", "$"}

FormKeywords == {"form", "application", "request"}

ResumeKeywords == {"resume", "cv", "experience", "education"}

LetterKeywords == {"letter", "dear", "sincerely"}

MemoKeywords == {"memo", "memorandum", "subject:"}

\* for part in path_parts: if part in DOCUMENT_CATEGORIES: return part
\* ("" when the loop ends without returning: no category is the empty string)
RECURSIVE FirstCategoryPart(_)
FirstCategoryPart(parts) ==
    IF Len(parts) = 0 THEN ""
    ELSE IF InCategories(parts[1]) THEN parts[1]
    ELSE FirstCategoryPart(Tail(parts))

\* mutant of classify_by_text: the form keywords are tested before the invoice ones
classify_by_text_form_first(text) ==
    LET text_lower == Lower(text)
    IN  IF AnyOccurs(FormKeywords, text_lower) THEN "form"
        ELSE IF AnyOccurs(InvoiceKeywords, text_lower) THEN "invoice"
        ELSE IF AnyOccurs(ResumeKeywords, text_lower) THEN "resume"
        ELSE IF AnyOccurs(LetterKeywords, text_lower) THEN "letter"
        ELSE IF AnyOccurs(MemoKeywords, text_lower) THEN "memo"
        ELSE "unknown"

\* the text-based fallback of _classify_document
classify_by_text(text) ==
    LET text_lower == Lower(text)
    IN  IF AnyOccurs(InvoiceKeywords, text_lower) THEN "invoice"
        ELSE IF AnyOccurs(FormKeywords, text_lower) THEN "form"
        ELSE IF AnyOccurs(ResumeKeywords, text_lower) THEN "resume"
        ELSE IF AnyOccurs(LetterKeywords, text_lower) THEN "letter"
        ELSE IF AnyOccurs(MemoKeywords, text_lower) THEN "memo"
        ELSE "unknown"

\* mutant of _classify_document: the text keywords are consulted before the path
classify_text_before_path(file_path, text) ==
    LET path_parts == Split(file_path, PathSep)
        part == FirstCategoryPart(path_parts)
        by_text == classify_by_text(text)
    IN  IF by_text # "unknown" THEN by_text ELSE IF part # "" THEN part ELSE "unknown"

_classify_document(file_path, text) ==
    LET path_parts == Split(file_path, PathSep)
        part == FirstCategoryPart(path_parts)
    IN  IF part # "" THEN part ELSE classify_by_text(text)

(***************************************************************************)
(* Python's re: the patterns of the source as syntax trees, matched with   *)
(* re's backtracking order (the first alternative and the longest          *)
(* repetition are tried first). A match state is [pos, caps]: the next     *)
(* position to read and the text captured by each group so far. Every      *)
(* operator returns the match states in the order re would try them.       *)
(***************************************************************************)
Cls(chars) == [t |-> "cls", set |-> chars]

Lit(str) == [t |-> "lit", s |-> str]

Cat(items) == [t |-> "seq", items |-> items]

Alt(items) == [t |-> "alt", items |-> items]

\* r{min,max}, greedy; max = -1 is no upper limit
Rep(r, min, max) == [t |-> "rep", r |-> r, min |-> min, max |-> max]

Opt(r) == Rep(r, 0, 1)

Star(r) == Rep(r, 0, -1)

Plus(r) == Rep(r, 1, -1)

\* \b
WordBoundary == [t |-> "wb"]

\* (r), the n-th capturing group
Group(n, r) == [t |-> "grp", n |-> n, r |-> r]

UpperChar(c) ==
    IF c \in LowerLetters
    THEN LET i == CHOOSE k \in 1..26 : Char("abcdefghijklmnopqrstuvwxyz", k) = c
         IN  Char("ABCDEFGHIJKLMNOPQRSTUVWXYZ", i)
    ELSE c

\* one character against a class; ic is re.IGNORECASE
CharIn(c, chars, ic) ==
    c \in chars \/ (ic /\ (LowerChar(c) \in chars \/ UpperChar(c) \in chars))

StrEq(a, b, ic) == IF ic THEN Lower(a) = Lower(b) ELSE a = b

\* \b at pos: exactly one of the characters before and at pos is a word character
AtWordBoundary(s, pos) ==
    LET before == pos > 1 /\ IsWord(Char(s, pos - 1))
        after == pos <= Len(s) /\ IsWord(Char(s, pos))
    IN  before # after

RECURSIVE MatchAll(_, _, _, _)
RECURSIVE MatchOne(_, _, _, _)
RECURSIVE MatchSeq(_, _, _, _, _)
RECURSIVE MatchAlt(_, _, _, _, _)
RECURSIVE MatchRep(_, _, _, _, _, _)
RECURSIVE MatchRepAll(_, _, _, _, _, _)
RECURSIVE Capture(_, _, _, _)

\* the states after r, from each of `states` in turn
MatchAll(r, s, ic, states) ==
    IF Len(states) = 0 THEN <<>>
    ELSE MatchOne(r, s, ic, states[1]) \o MatchAll(r, s, ic, Tail(states))

MatchSeq(items, k, s, ic, states) ==
    IF k > Len(items) THEN states
    ELSE MatchSeq(items, k + 1, s, ic, MatchAll(items[k], s, ic, states))

MatchAlt(items, k, s, ic, st) ==
    IF k > Len(items) THEN <<>>
    ELSE MatchOne(items[k], s, ic, st) \o MatchAlt(items, k + 1, s, ic, st)

\* one more repetition first (greedy), stopping here last
MatchRep(r, min, max, s, ic, st) ==
    LET once == SelectSeq(MatchOne(r, s, ic, st), LAMBDA x : x.pos > st.pos)
        more == IF max = 0 THEN <<>>
                ELSE MatchRepAll(r, IF min > 0 THEN min - 1 ELSE 0,
                                 IF max > 0 THEN max - 1 ELSE max, s, ic, once)
    IN  more \o (IF min = 0 THEN <<st>> ELSE <<>>)

MatchRepAll(r, min, max, s, ic, states) ==
    IF Len(states) = 0 THEN <<>>
    ELSE MatchRep(r, min, max, s, ic, states[1])
             \o MatchRepAll(r, min, max, s, ic, Tail(states))

\* group n of every state set to the text read since `from`
Capture(n, s, from, states) ==
    IF Len(states) = 0 THEN <<>>
    ELSE <<[states[1] EXCEPT !.caps = [@ EXCEPT ![n] = SubSeq(s, from, states[1].pos - 1)]]>>
             \o Capture(n, s, from, Tail(states))

MatchOne(r, s, ic, st) ==
    CASE r.t = "cls" ->
            IF st.pos <= Len(s) /\ CharIn(Char(s, st.pos), r.set, ic)
            THEN <<[st EXCEPT !.pos = @ + 1]>> ELSE <<>>
      [] r.t = "lit" ->
            IF /\ st.pos + Len(r.s) - 1 <= Len(s)
               /\ StrEq(SubSeq(s, st.pos, st.pos + Len(r.s) - 1), r.s, ic)
            THEN <<[st EXCEPT !.pos = @ + Len(r.s)]>> ELSE <<>>
      [] r.t = "seq" -> MatchSeq(r.items, 1, s, ic, <<st>>)
      [] r.t = "alt" -> MatchAlt(r.items, 1, s, ic, st)
      [] r.t = "rep" -> MatchRep(r.r, r.min, r.max, s, ic, st)
      [] r.t = "wb" -> IF AtWordBoundary(s, st.pos) THEN <<st>> ELSE <<>>
      [] r.t = "grp" -> Capture(r.n, s, st.pos, MatchOne(r.r, s, ic, st))

\* what re.findall reports for one match: the whole match when the pattern has no
\* group, the group when it has one, the groups as a tuple when it has several
RECURSIVE GroupsTuple(_, _)
GroupsTuple(caps, n) == IF n = 0 THEN <<>> ELSE Append(GroupsTuple(caps, n - 1), caps[n])

MatchValue(s, from, st, groups) ==
    IF groups = 0 THEN SubSeq(s, from, st.pos - 1)
    ELSE IF groups = 1 THEN st.caps[1]
    ELSE GroupsTuple(st.caps, groups)

\* the ways the pattern matches from position p, in re's order: re takes the first
MatchAt(r, groups, s, ic, p) ==
    MatchOne(r, s, ic, [pos |-> p, caps |-> [n \in 1..groups |-> ""]])

\* the positions from `from` on at which a match starts
MatchStarts(r, groups, s, ic, from) ==
    {p \in from..(Len(s) + 1) : Len(MatchAt(r, groups, s, ic, p)) > 0}

\* the match at `start` and the matches after it
RECURSIVE FindAllFrom(_, _, _, _, _)
MatchAndRest(r, groups, s, ic, start, st) ==
    <<MatchValue(s, start, st, groups)>>
        \o FindAllFrom(r, groups, s, ic, IF st.pos > start THEN st.pos ELSE start + 1)

\* the search from the leftmost of `starts`
FromLeftmost(r, groups, s, ic, starts) ==
    IF starts = {} THEN <<>>
    ELSE \* the leftmost start
         MatchAndRest(r, groups, s, ic, CHOOSE p \in starts : \A q \in starts : p <= q,
                      MatchAt(r, groups, s, ic,
                              CHOOSE p \in starts : \A q \in starts : p <= q)[1])

\* re.findall(pattern, s, flags): the non-overlapping matches, left to right
FindAllFrom(r, groups, s, ic, from) ==
    FromLeftmost(r, groups, s, ic, MatchStarts(r, groups, s, ic, from))

findall(pattern, s, ic) == FindAllFrom(pattern.re, pattern.groups, s, ic, 1)

Pattern(r, groups) == [re |-> r, groups |-> groups]

(***************************************************************************)
(* processor/config.py: ENTITY_PATTERNS                                    *)
(***************************************************************************)
Letters == LowerLetters \cup UpperLetters

Alnum == Letters \cup Digits

Digit == Cls(Digits)

\* \b[A-Za-z0-9._%+-]+@[A-Za-z0-9.-]+\.[A-Z|a-z]{2,}\b
EmailPattern ==
    Pattern(Cat(<<WordBoundary, Plus(Cls(Alnum \cup {".", "_", "%", "+", "-"})), Lit("@"),
                  Plus(Cls(Alnum \cup {".", "-"})), Lit("."),
                  Rep(Cls(Letters \cup {"|"}), 2, -1), WordBoundary>>), 0)

\* \b\d{3}[-.]?\d{3}[-.]?\d{4}\b
PhonePattern1 ==
    Pattern(Cat(<<WordBoundary, Rep(Digit, 3, 3), Opt(Cls({"-", "."})), Rep(Digit, 3, 3),
                  Opt(Cls({"-", "."})), Rep(Digit, 4, 4), WordBoundary>>), 0)

\* \(\d{3}\)\s*\d{3}[-.]?\d{4}\b
PhonePattern2 ==
    Pattern(Cat(<<Lit("("), Rep(Digit, 3, 3), Lit(")"), Star(Cls(SpaceChars)),
                  Rep(Digit, 3, 3), Opt(Cls({"-", "."})), Rep(Digit, 4, 4), WordBoundary>>), 0)

\* \b\d{1,2}[/-]\d{1,2}[/-]\d{2,4}\b
DatePattern1 ==
    Pattern(Cat(<<WordBoundary, Rep(Digit, 1, 2), Cls({"/", "-"}), Rep(Digit, 1, 2),
                  Cls({"/", "-"}), Rep(Digit, 2, 4), WordBoundary>>), 0)

\* \b\d{4}[-/]\d{1,2}[-/]\d{1,2}\b
DatePattern2 ==
    Pattern(Cat(<<WordBoundary, Rep(Digit, 4, 4), Cls({"/", "-"}), Rep(Digit, 1, 2),
                  Cls({"/", "-"}), Rep(Digit, 1, 2), WordBoundary>>), 0)

\* \b(?:Jan|Feb|Mar|Apr|May|Jun|Jul|Aug|Sep|Oct|Nov|Dec)[a-z]*\s+\d{1,2},?\s+\d{4}\b
DatePattern3 ==
    Pattern(Cat(<<WordBoundary,
                  Alt(<<Lit("Jan"), Lit("Feb"), Lit("Mar"), Lit("Apr"), Lit("May"), Lit("Jun"),
                        Lit("Jul"), Lit("Aug"), Lit("Sep"), Lit("Oct"), Lit("Nov"), Lit("Dec")>>),
                  Star(Cls(LowerLetters)), Plus(Cls(SpaceChars)),
                  Rep(Digit, 1, 2), Opt(Lit(",")), Plus(Cls(SpaceChars)),
                  Rep(Digit, 4, 4), WordBoundary>>), 0)

\* (?:,\d{3})*(?:\.\d{2})?
ThousandsAndCents ==
    <<Star(Cat(<<Lit(","), Rep(Digit, 3, 3)>>)), Opt(Cat(<<Lit("."), Rep(Digit, 2, 2)>>))>>

\* \$\d{1,3}(?:,\d{3})*(?:\.\d{2})?
AmountPattern1 == Pattern(Cat(<<Lit("$"), Rep(Digit, 1, 3)>> \o ThousandsAndCents), 0)

\* \b\d{1,3}(?:,\d{3})*(?:\.\d{2})?\s*(?:USD|dollars?)\b
AmountPattern2 ==
    Pattern(Cat(<<WordBoundary, Rep(Digit, 1, 3)>> \o ThousandsAndCents
                \o <<Star(Cls(SpaceChars)),
                     Alt(<<Lit("USD"), Cat(<<Lit("dollar"), Opt(Lit("s"))>>)>>),
                     WordBoundary>>), 0)

\* (?:Invoice|INV)[\s#-]*(\d+)
InvoicePattern1 ==
    Pattern(Cat(<<Alt(<<Lit("Invoice"), Lit("INV")>>),
                  Star(Cls(SpaceChars \cup {"#", "-"})),
                  Group(1, Plus(Digit))>>), 1)

\* (?:Bill|Receipt)[\s#-]*(\d+)
InvoicePattern2 ==
    Pattern(Cat(<<Alt(<<Lit("Bill"), Lit("Receipt")>>),
                  Star(Cls(SpaceChars \cup {"#", "-"})),
                  Group(1, Plus(Digit))>>), 1)

\* \b\d{3}-\d{2}-\d{4}\b
SsnPattern ==
    Pattern(Cat(<<WordBoundary, Rep(Digit, 3, 3), Lit("-"), Rep(Digit, 2, 2), Lit("-"),
                  Rep(Digit, 4, 4), WordBoundary>>), 0)

\* the keys of ENTITY_PATTERNS, in the order of the dict
PatternKinds == <<"email", "phone", "date", "amount", "invoice_number", "ssn">>

ENTITY_PATTERNS ==
    [k \in {PatternKinds[i] : i \in 1..Len(PatternKinds)} |->
        CASE k = "email" -> <<EmailPattern>>
          [] k = "phone" -> <<PhonePattern1, PhonePattern2>>
          [] k = "date" -> <<DatePattern1, DatePattern2, DatePattern3>>
          [] k = "amount" -> <<AmountPattern1, AmountPattern2>>
          [] k = "invoice_number" -> <<InvoicePattern1, InvoicePattern2>>
          [] k = "ssn" -> <<SsnPattern>>]

(***************************************************************************)
(* processor/utils.py: extract_entities                                    *)
(***************************************************************************)
\* for pattern in pattern_list: matches.extend(re.findall(pattern, text, re.IGNORECASE))
RECURSIVE AllMatches(_, _)
AllMatches(pattern_list, text) ==
    IF Len(pattern_list) = 0 THEN <<>>
    ELSE findall(pattern_list[1], text, TRUE) \o AllMatches(Tail(pattern_list), text)

InSeq(x, seq) == \E i \in 1..Len(seq) : seq[i] = x

\* list(dict.fromkeys(seq)): duplicates removed, first occurrences kept in order
RECURSIVE DedupInto(_, _)
DedupInto(seq, acc) ==
    IF Len(seq) = 0 THEN acc
    ELSE DedupInto(Tail(seq), IF InSeq(seq[1], acc) THEN acc ELSE Append(acc, seq[1]))

\* mutant of Dedup: every match is kept
KeepAll(seq) == seq

Dedup(seq) == DedupInto(seq, <<>>)

extract_entities(text, patterns) ==
    LET found == [k \in DOMAIN patterns |-> AllMatches(patterns[k], text)]
    IN  [k \in {x \in DOMAIN patterns : Len(found[x]) > 0} |-> Dedup(found[k])]

(***************************************************************************)
(* processor/utils.py: extract_text_from_image. What cv2 and tesseract do  *)
(* with the image is the environment's choice `ocr`: the image cannot be   *)
(* decoded, a library call raises, or tesseract returns the text ocr.raw.  *)
(***************************************************************************)
MinTextLen == 10

extract_text_from_image(ocr) ==
    IF ocr.kind = "unreadable" THEN ""
    ELSE IF ocr.kind = "error" THEN ""
    ELSE Strip(ocr.raw)

(***************************************************************************)
(* processor/pipeline.py: DocumentPipeline._extract_entities_with_llm      *)
(***************************************************************************)
\* mutant of EntityKinds: the dictionary starts without its addresses key
EntityKindsWithoutAddresses ==
    {"persons", "organizations", "locations", "dates", "amounts", "emails", "phones"}

EntityKinds ==
    {"persons", "organizations", "locations", "dates", "amounts", "emails", "phones",
     "addresses"}

\* confidence > 0.8, in hundredths
ConfidenceThreshold == 80

\* the model sees text[:512]
TruncateLen == 512

\* mutant of Prefix: nothing is cut off
WholeText(s, n) == s

Prefix(s, n) == SubSeq(s, 1, IF Len(s) < n THEN Len(s) ELSE n)

\* self.ner_pipeline(input): the external model returns, of the spans ner.spans it
\* could report, those whose word is in the input it is given
NerCall(input, ner) == SelectSeq(ner.spans, LAMBDA span : Occurs(span.word, input))

RECURSIVE Upper(_)
Upper(s) == IF Len(s) = 0 THEN "" ELSE UpperChar(Char(s, 1)) \o Upper(SubSeq(s, 2, Len(s)))

\* the key a span of the model goes to ("" when it is dropped)
SpanKind(entity) ==
    LET entity_type == Upper(entity.entity_group)
        entity_text == Strip(entity.word)
    IN  IF ~(entity.score > ConfidenceThreshold) THEN ""
        ELSE IF entity_type \in {"PER", "PERSON"} THEN "persons"
        ELSE IF entity_type \in {"ORG", "ORGANIZATION"} THEN "organizations"
        ELSE IF entity_type \in {"LOC", "LOCATION"} THEN "locations"
        ELSE IF entity_type \in {"MISC"}
             THEN IF AnyOccurs({"@", "email"}, Lower(entity_text)) THEN "emails"
                  ELSE IF \E i \in 1..Len(entity_text) : Char(entity_text, i) \in Digits
                       THEN "dates"
                  ELSE ""
        ELSE ""

\* for entity in ner_results: ... entities[kind].append(entity_text)
RECURSIVE AppendSpans(_, _)
AppendSpans(entities, ner_results) ==
    IF Len(ner_results) = 0 THEN entities
    ELSE LET kind == SpanKind(ner_results[1])
             next == IF kind = "" THEN entities
                     ELSE [entities EXCEPT ![kind] = Append(@, Strip(ner_results[1].word))]
         IN  AppendSpans(next, Tail(ner_results))

\* \b(?:\+?1[-.\s]?)?\(?([0-9]{3})\)?[-.\s]?([0-9]{3})[-.\s]?([0-9]{4})\b
LlmPhonePattern ==
    Pattern(Cat(<<WordBoundary,
                  Opt(Cat(<<Opt(Lit("+")), Lit("1"), Opt(Cls(SpaceChars \cup {"-", "."}))>>)),
                  Opt(Lit("(")), Group(1, Rep(Digit, 3, 3)), Opt(Lit(")")),
                  Opt(Cls(SpaceChars \cup {"-", "."})), Group(2, Rep(Digit, 3, 3)),
                  Opt(Cls(SpaceChars \cup {"-", "."})), Group(3, Rep(Digit, 4, 4)),
                  WordBoundary>>), 3)

\* \$\s*\d+(?:,\d{3})*(?:\.\d{2})?
LlmMoneyPattern ==
    Pattern(Cat(<<Lit("$"), Star(Cls(SpaceChars)), Plus(Digit)>> \o ThousandsAndCents), 0)

\* ['-'.join(phone) for phone in phones]
RECURSIVE JoinEach(_, _)
JoinEach(tuples, sep) ==
    IF Len(tuples) = 0 THEN <<>> ELSE <<Join(tuples[1], sep)>> \o JoinEach(Tail(tuples), sep)

RECURSIVE Reverse(_)
Reverse(seq) == IF Len(seq) = 0 THEN <<>> ELSE Append(Reverse(Tail(seq)), seq[1])

\* list(set(items)): the distinct items in the order the set iterates, which the
\* interpreter's string hashing decides; `rev` picks between the two orders of a
\* two-element set
ListOfSet(items, rev) == IF rev THEN Reverse(Dedup(items)) ELSE Dedup(items)

\* mutant of LongItems: no item is discarded
AllItems(items) == items

\* [item for item in items if len(item.strip()) > 1]
RECURSIVE LongItems(_)
LongItems(items) ==
    IF Len(items) = 0 THEN <<>>
    ELSE (IF Len(Strip(items[1])) > 1 THEN <<items[1]>> ELSE <<>>) \o LongItems(Tail(items))

\* the names `from .utils import ...` can bind: what processor/utils.py defines or imports
UtilsNames ==
    {"os", "re", "cv2", "pytesseract", "Image", "np", "List", "Dict", "Any",
     "extract_text_from_image", "clean_text", "extract_entities", "get_document_files",
     "validate_file"}

\* from .utils import <names> succeeds
CanImportFromUtils(names) == names \subseteq UtilsNames

Returned(value) == [raised |-> FALSE, value |-> value]

Raised == [raised |-> TRUE, value |-> <<>>]

\* the except branch: the fallback to the regex extractor
llm_fallback(text) ==
    IF CanImportFromUtils({"extract_entities", "ENTITY_PATTERNS"})
    THEN Returned(extract_entities(text, ENTITY_PATTERNS))
    ELSE Raised

\* ner_loaded: self.ner_pipeline is not None; ner: what the model call does (raises, or
\* returns ner.spans)
_extract_entities_with_llm(text, ner_loaded, ner, rev) ==
    LET entities == [k \in EntityKinds |-> <<>>]
    IN  IF ~ner_loaded \/ Strip(text) = "" THEN Returned(entities)
        ELSE IF ner.raises THEN llm_fallback(text)
        ELSE LET ner_results == NerCall(Prefix(text, TruncateLen), ner)
                 e1 == AppendSpans(entities, ner_results)
                 emails == findall(EmailPattern, text, FALSE)
                 phones == findall(LlmPhonePattern, text, FALSE)
                 amounts == findall(LlmMoneyPattern, text, FALSE)
                 e2 == [e1 EXCEPT !["emails"] = @ \o emails,
                                  !["phones"] = @ \o JoinEach(phones, "-"),
                                  !["amounts"] = @ \o amounts]
             IN  Returned([k \in EntityKinds |-> LongItems(ListOfSet(e2[k], rev))])

(***************************************************************************)
(* processor/pipeline.py: DocumentPipeline._store_documents. `store` is    *)
(* what the embedder and the vector store do with the call: "ok",          *)
(* "encode_error" (embedder.encode raises) or "add_error" (collection.add  *)
(* raises). collection.add inserts the ids the collection does not hold    *)
(* and leaves an entry whose id it already holds as it is (chromadb logs   *)
(* "Add of existing embedding ID" and skips it; only upsert overwrites);   *)
(* a call whose ids repeat is rejected with DuplicateIDError.              *)
(***************************************************************************)
\* json.dumps(value): the serialized form of value
JsonDumps(value) == [json |-> value]

Metadata(doc) ==
    [category |-> doc.category, filename |-> doc.filename, word_count |-> doc.word_count,
     entities |-> JsonDumps(doc.entities)]

Entry(doc) == [document |-> doc.text, metadata |-> Metadata(doc)]

Ids(documents) == {documents[i].id : i \in 1..Len(documents)}

HasDuplicateIds(documents) ==
    \E i, j \in 1..Len(documents) : i # j /\ documents[i].id = documents[j].id

\* the entry stored for id by a call that adds `documents`: the first one with that id
AddedEntry(documents, id) ==
    Entry(documents[CHOOSE i \in 1..Len(documents) : documents[i].id = id])

\* collection.add(ids, documents, embeddings, metadatas)
CollectionAdd(coll, documents) ==
    [id \in DOMAIN coll \cup Ids(documents) |->
        IF id \in DOMAIN coll THEN coll[id] ELSE AddedEntry(documents, id)]

\* the ids a call of _store_documents hands to collection.add, in order: none when
\* there is no document or the embedder raised before the add
RECURSIVE IdList(_)
IdList(documents) ==
    IF Len(documents) = 0 THEN <<>> ELSE <<documents[1].id>> \o IdList(Tail(documents))

submitted_ids(documents, store) ==
    IF store = "encode_error" THEN <<>> ELSE IdList(documents)

_store_documents(documents, coll, store) ==
    IF Len(documents) = 0 THEN [raised |-> FALSE, coll |-> coll]
    ELSE IF store = "encode_error" THEN [raised |-> TRUE, coll |-> coll]
    ELSE IF store = "add_error" \/ HasDuplicateIds(documents)
         THEN [raised |-> TRUE, coll |-> coll]
    ELSE [raised |-> FALSE, coll |-> CollectionAdd(coll, documents)]

(***************************************************************************)
(* The environment: what OCR, the NER model, the embedder, the vector      *)
(* store and the file system may do at a call.                             *)
(***************************************************************************)
RawTexts ==
    {"  \n ", "memo 1", " Bill x@y.io  $5 #1\n", "Dear Ann a@b.io\nc@d.io 1", "##########"}

OcrOutcomes ==
    {[kind |-> "unreadable", raw |-> ""], [kind |-> "error", raw |-> ""]}
        \cup {[kind |-> "text", raw |-> t] : t \in RawTexts}

NerOutcomes ==
    {[raises |-> TRUE, spans |-> <<>>],
     [raises |-> FALSE,
      spans |-> <<[entity_group |-> "PER", word |-> "Ann", score |-> 99],
                  [entity_group |-> "ORG", word |-> "Bill", score |-> 80]>>]}

StoreOutcomes == {"ok", "encode_error", "add_error"}

SaveOutcomes == {"ok", "error"}

NerReturns == CHOOSE n \in NerOutcomes : ~n.raises

\* OCR yields too little text for the model and the store to be called
TooShort(ocr) == Len(extract_text_from_image(ocr)) < MinTextLen

\* an environment per way a call can go: when the text is too short for the model and
\* the store to be consulted, what they would have done is left at one value
Envs ==
    {e \in [ocr : OcrOutcomes, ner : NerOutcomes, store : StoreOutcomes, rev : BOOLEAN] :
        TooShort(e.ocr) => (e.ner = NerReturns /\ e.store = "ok" /\ ~e.rev)}

\* the environments of the batch specification: OCR fails, or yields a text that is too
\* short, or the one text BatchText
BatchText == " Bill x@y.io  $5 #1\n"

BatchEnvs == {e \in Envs : e.ocr.kind = "text" => e.ocr.raw \in {"memo 1", BatchText}}

\* the files of the model, in sorted order
FilePool ==
    <<"docs/invoice/a.jpg", "docs/scan/b.JPG", "docs/scan/c.jpeg", "docs/scan/notes.txt">>

ModelFiles == {FilePool[i] : i \in 1..Len(FilePool)}

\* the names tempfile.NamedTemporaryFile may pick, before the suffix
TempNames == {"/tmp/tmpa", "/tmp/tmpb"}

\* the names of uploaded files
UploadNames == {"scan.jpg", "b.JPEG", "notes.txt"}

\* os.path.splitext(name)[1]: the name from its last dot on, "" without one
SplitExt(name) ==
    LET parts == Split(name, ".")
    IN  IF Len(parts) < 2 \/ (Len(parts) = 2 /\ parts[1] = "") THEN ""
        ELSE "." \o parts[Len(parts)]

\* the paths _save_temp_file may return: a picked name with the upload's extension
TempPaths == {n \o SplitExt(u) : n \in TempNames, u \in UploadNames}

\* the images process_single_document is called with
SingleFiles == {"docs/invoice/a.jpg", "docs/scan/b.JPG"}

(***************************************************************************)
(* processor/pipeline.py: DocumentPipeline.process_single_document         *)
(***************************************************************************)
\* os.path.basename(file_path)
Basename(file_path) == LET parts == Split(file_path, PathSep) IN parts[Len(parts)]

\* len(text.split()): the number of maximal runs of non-whitespace
RECURSIVE CountWords(_, _)
CountWords(s, in_word) ==
    IF Len(s) = 0 THEN 0
    ELSE IF IsSpace(Char(s, 1)) THEN CountWords(SubSeq(s, 2, Len(s)), FALSE)
    ELSE (IF in_word THEN 0 ELSE 1) + CountWords(SubSeq(s, 2, Len(s)), TRUE)

WordCount(s) == CountWords(s, FALSE)

\* the record; its timestamp (the wall clock at construction) is not stored in the
\* collection and is left out
DocData(file_path, category, cleaned_text, entities) ==
    [id |-> category \o "_" \o Basename(file_path),
     filename |-> Basename(file_path),
     file_path |-> file_path,
     category |-> category,
     text |-> cleaned_text,
     entities |-> entities,
     word_count |-> WordCount(cleaned_text)]

\* mutant of lacks_text: no text is rejected
lacks_no_text(text) == FALSE

\* if not text or len(text.strip()) < 10
lacks_text(text) == text = "" \/ Len(Strip(text)) < MinTextLen

\* the try block up to the construction of doc_data, which reads nothing of the
\* pipeline's state. raised: an exception leaves the block; ret: <<>> when the method
\* returns None here, else <<doc_data>>; trace: the OCR text, whether it is empty,
\* whitespace-only or shorter than MinTextLen once trimmed, whether the model call
\* raised, the components called, in order, and the ids handed to collection.add
build_document(file_path, ner_loaded, ocr, ner, rev) ==
    LET text == extract_text_from_image(ocr)
        dropped == [text |-> text, short |-> Len(Strip(text)) < MinTextLen,
                    ner_raised |-> FALSE, store |-> "not_called",
                    calls |-> <<"extract_text_from_image">>, added |-> <<>>]
    IN  IF lacks_text(text)
        THEN [raised |-> FALSE, ret |-> <<>>, trace |-> dropped]
        ELSE LET cleaned_text == clean_text(text)
                 category == _classify_document(file_path, cleaned_text)
                 ner_called == ner_loaded /\ Strip(cleaned_text) # ""
                 entities == _extract_entities_with_llm(cleaned_text, ner_loaded, ner, rev)
                 extracted == [dropped EXCEPT
                                  !.ner_raised = ner_called /\ ner.raises,
                                  !.calls = @ \o <<"clean_text", "_classify_document",
                                                   "_extract_entities_with_llm">>]
             IN  IF entities.raised
                 THEN [raised |-> TRUE, ret |-> <<>>, trace |-> extracted]
                 ELSE [raised |-> FALSE,
                       ret |-> <<DocData(file_path, category, cleaned_text, entities.value)>>,
                       trace |-> extracted]

\* build_document, tabulated over the files and environments of the model (@@ makes
\* the table an explicit function, computed once)
BuiltDocuments ==
    [f \in ModelFiles \cup TempPaths, l \in BOOLEAN, o \in OcrOutcomes, n \in NerOutcomes,
     r \in BOOLEAN |->
        build_document(f, l, o, n, r)] @@ <<>>

\* the rest of the try block, self._store_documents([doc_data]) and the return, for
\* the outcome `built` of the steps before it
store_built(built, coll, store) ==
    IF built.raised \/ Len(built.ret) = 0
    THEN [raised |-> built.raised, ret |-> <<>>, coll |-> coll, trace |-> built.trace]
    ELSE LET stored == _store_documents(built.ret, coll, store)
             done == [built.trace EXCEPT !.store = store,
                                         !.calls = @ \o <<"_store_documents">>,
                                         !.added = submitted_ids(built.ret, store)]
         IN  IF stored.raised
             THEN [raised |-> TRUE, ret |-> <<>>, coll |-> coll, trace |-> done]
             ELSE [raised |-> FALSE, ret |-> built.ret, coll |-> stored.coll, trace |-> done]

\* the body of the try block: [raised, ret, coll, trace]; coll is the collection
\* afterwards, trace.store what the store did
process_single_body(file_path, coll, ner_loaded, env) ==
    store_built(BuiltDocuments[file_path, ner_loaded, env.ocr, env.ner, env.rev], coll,
                env.store)

\* except Exception: log, return None
absorbed(r) == IF r.raised THEN [r EXCEPT !.raised = FALSE, !.ret = <<>>] ELSE r

\* mutant of process_single_document: no except clause around the body
process_single_uncaught(file_path, coll, ner_loaded, env) ==
    process_single_body(file_path, coll, ner_loaded, env)

\* try: ... except Exception: log, return None
process_single_document(file_path, coll, ner_loaded, env) ==
    absorbed(process_single_body(file_path, coll, ner_loaded, env))

(***************************************************************************)
(* processor/utils.py: get_document_files. A data directory is the set of  *)
(* files under it.                                                         *)
(***************************************************************************)
\* s.endswith(suffix)
EndsWith(s, suffix) ==
    Len(s) >= Len(suffix) /\ SubSeq(s, Len(s) - Len(suffix) + 1, Len(s)) = suffix

\* any(filename.lower().endswith(ext) for ext in ['.jpg', '.jpeg'])
HasImageExtension(path) == \E ext \in {".jpg", ".jpeg"} : EndsWith(Lower(Basename(path)), ext)

\* sorted(files) for the files of `dir` with an image extension
get_document_files(dir) ==
    SelectSeq(FilePool, LAMBDA f : f \in dir /\ HasImageExtension(f))

Min(a, b) == IF a < b THEN a ELSE b

Max(a, b) == IF a < b THEN b ELSE a

\* seq[:limit], with Python's reading of a negative limit (count from the end)
SliceTo(seq, limit) ==
    SubSeq(seq, 1, IF limit >= 0 THEN Min(limit, Len(seq)) ELSE Max(Len(seq) + limit, 0))

(***************************************************************************)
(* processor/pipeline.py: DocumentPipeline._save_results. `save` is what   *)
(* the file system does: "ok", or "error" (the output directory or         *)
(* results.json cannot be written, and the call raises).                   *)
(***************************************************************************)
SummaryRow(doc) ==
    [filename |-> doc.filename, category |-> doc.category, word_count |-> doc.word_count,
     entity_count |-> Cardinality(DOMAIN doc.entities)]

SummaryRows(documents) == [i \in 1..Len(documents) |-> SummaryRow(documents[i])]

\* mutant of _save_results: the files are opened for appending
save_results_appending(documents, json, csv, save) ==
    IF save = "error" THEN [raised |-> TRUE, json |-> json, csv |-> csv]
    ELSE [raised |-> FALSE, json |-> json \o documents,
          csv |-> csv \o SummaryRows(documents)]

\* open(path, 'w') and to_csv replace the file: [raised, json, csv]
_save_results(documents, json, csv, save) ==
    IF save = "error" THEN [raised |-> TRUE, json |-> json, csv |-> csv]
    ELSE [raised |-> FALSE, json |-> documents, csv |-> SummaryRows(documents)]

Directories == SUBSET ModelFiles

MaxLimit == 3

Limits == (0 - 1)..MaxLimit

(***************************************************************************)
(* The pipeline. process_single_document is one action; process_documents *)
(* is its entry, one step per file of its loop, and its store-and-save     *)
(* pass with the return. SpecSingle is the pipeline called one document at *)
(* a time (the upload endpoint, the management command); Spec is the       *)
(* pipeline called in batch mode.                                          *)
(***************************************************************************)
IdleBatch ==
    [pc |-> "idle", files |-> <<>>, processed_docs |-> <<>>, found |-> 0, limit |-> 0,
     short |-> {}, submitted |-> <<>>, alone |-> <<>>]

NoCall == [op |-> "none", raised |-> FALSE, ret |-> <<>>]

NoProbe == [fn |-> "none", input |-> <<>>, out |-> <<>>]

\* __init__: the collection is opened (get_or_create), the NER model is loaded or not
Init ==
    /\ ner_pipeline \in BOOLEAN
    /\ collection = <<>>
    /\ json_file = <<>>
    /\ csv_file = <<>>
    /\ temp_files = {}
    /\ batch = IdleBatch
    /\ last = NoCall
    /\ probe = NoProbe

ProcessSingleDocument(file_path, env) ==
    /\ batch.pc = "idle"
    /\ \E r \in {process_single_document(file_path, collection, ner_pipeline, env)} :
           /\ collection' = r.coll
           /\ last' = [op |-> "single", raised |-> r.raised, ret |-> r.ret,
                       file_path |-> file_path, trace |-> r.trace]
    /\ UNCHANGED <<temp_files, ner_pipeline, json_file, csv_file, batch, probe>>

\* get_document_files, tabulated over the directories of the model
DocumentFiles == [dir \in Directories |-> get_document_files(dir)] @@ <<>>

\* files = get_document_files(data_path)[:limit]; processed_docs = []
ProcessDocumentsStart(dir, limit) ==
    /\ batch.pc = "idle"
    /\ batch' = [pc |-> "loop", files |-> SliceTo(DocumentFiles[dir], limit),
                 processed_docs |-> <<>>, found |-> Len(DocumentFiles[dir]),
                 limit |-> limit, short |-> {}, submitted |-> <<>>, alone |-> <<>>]
    /\ last' = NoCall
    /\ UNCHANGED <<temp_files, ner_pipeline, collection, json_file, csv_file, probe>>

\* mutant of appended: the new record goes to the front of the list
prepended(processed_docs, ret) == ret \o processed_docs

\* if doc_data: processed_docs.append(doc_data)
appended(processed_docs, ret) == processed_docs \o ret

\* one iteration of: for file_path in files. `alone` collects what the same call
\* returns for the file on an empty collection
ProcessDocumentsStep(env) ==
    /\ batch.pc = "loop"
    /\ Len(batch.files) > 0
    /\ \E r \in {process_single_document(batch.files[1], collection, ner_pipeline, env)},
          a \in {process_single_document(batch.files[1], <<>>, ner_pipeline, env)} :
           /\ collection' = r.coll
           /\ batch' = [batch EXCEPT
                            !.files = Tail(@),
                            !.processed_docs = IF r.raised THEN @ ELSE appended(@, r.ret),
                            !.alone = @ \o a.ret,
                            !.pc = IF r.raised THEN "raised" ELSE @,
                            !.short = IF r.trace.short THEN @ \cup {batch.files[1]} ELSE @,
                            !.submitted = @ \o r.trace.added]
    /\ UNCHANGED <<temp_files, ner_pipeline, json_file, csv_file, last, probe>>

\* mutant of process_documents_end: the sinks are written whatever the loop produced
process_documents_end_saving(processed_docs, coll, json, csv, store, save) ==
    LET stored == _store_documents(processed_docs, coll, store)
        saved == _save_results(processed_docs, json, csv, save)
    IN  IF stored.raised \/ saved.raised
        THEN [raised |-> TRUE, ret |-> <<>>, coll |-> coll, json |-> json, csv |-> csv]
        ELSE [raised |-> FALSE, ret |-> processed_docs, coll |-> stored.coll,
              json |-> saved.json, csv |-> saved.csv]

\* what process_documents does once the loop has ended: [raised, ret, coll, json, csv]
process_documents_end(processed_docs, coll, json, csv, store, save) ==
    IF Len(processed_docs) > 0
    THEN LET stored == _store_documents(processed_docs, coll, store)
             saved == _save_results(processed_docs, json, csv, save)
         IN  IF stored.raised
             THEN [raised |-> TRUE, ret |-> <<>>, coll |-> coll, json |-> json, csv |-> csv]
             ELSE IF saved.raised
             THEN [raised |-> TRUE, ret |-> <<>>, coll |-> stored.coll,
                   json |-> saved.json, csv |-> saved.csv]
             ELSE [raised |-> FALSE, ret |-> processed_docs, coll |-> stored.coll,
                   json |-> saved.json, csv |-> saved.csv]
    ELSE [raised |-> FALSE, ret |-> <<>>, coll |-> coll, json |-> json, csv |-> csv]

ProcessDocumentsReturn(store, save) ==
    /\ batch.pc \in {"loop", "raised"}
    /\ batch.pc = "loop" => Len(batch.files) = 0
    /\ \E r \in {IF batch.pc = "raised"
                 THEN [raised |-> TRUE, ret |-> <<>>, coll |-> collection,
                       json |-> json_file, csv |-> csv_file]
                 ELSE process_documents_end(batch.processed_docs, collection, json_file,
                                            csv_file, store, save)} :
           /\ collection' = r.coll
           /\ json_file' = r.json
           /\ csv_file' = r.csv
           /\ last' = [op |-> "batch", raised |-> r.raised, ret |-> r.ret,
                       found |-> batch.found, limit |-> batch.limit, short |-> batch.short,
                       alone |-> batch.alone,
                       submitted |->
                           batch.submitted \o
                               (IF batch.pc = "loop"
                                THEN submitted_ids(batch.processed_docs, store) ELSE <<>>),
                       store |-> IF batch.pc = "loop" /\ Len(batch.processed_docs) > 0
                                 THEN store ELSE "not_called"]
    /\ batch' = IdleBatch
    /\ UNCHANGED <<temp_files, ner_pipeline, probe>>

NextSingle == \E f \in SingleFiles, env \in Envs : ProcessSingleDocument(f, env)

SpecSingle == Init /\ [][NextSingle]_vars

Next ==
    \/ \E dir \in Directories, limit \in Limits : ProcessDocumentsStart(dir, limit)
    \/ \E env \in BatchEnvs : ProcessDocumentsStep(env)
    \/ \E store \in StoreOutcomes, save \in SaveOutcomes : ProcessDocumentsReturn(store, save)

Spec == Init /\ [][Next]_vars

(***************************************************************************)
(* processor/pipeline.py: DocumentPipeline.search and get_stats. What the   *)
(* vector store does is the environment's choice: `ranking` is the ids of  *)
(* the collection from nearest to farthest for the query, `query` and      *)
(* `stats` say which call raises, if any. The similarity of a result is a  *)
(* number of the embedding model and is left out.                          *)
(***************************************************************************)
PreviewLen == 200

\* doc[:200] + "..." if len(doc) > 200 else doc
Preview(doc) == IF Len(doc) > PreviewLen THEN SubSeq(doc, 1, PreviewLen) \o "..." ELSE doc

\* the orders in which a query may rank the entries of the collection
RECURSIVE Rankings(_)
Rankings(ids) ==
    IF ids = {} THEN {<<>>}
    ELSE UNION {{<<id>> \o r : r \in Rankings(ids \ {id})} : id \in ids}

QueryOutcomes == {"ok", "error"}

\* search(query, n_results): the n_results nearest entries; [] when the query raises
search(coll, ranking, n_results, query) ==
    IF query = "error" THEN <<>>
    ELSE [i \in 1..Min(n_results, Len(ranking)) |->
             [id |-> ranking[i], text |-> Preview(coll[ranking[i]].document),
              metadata |-> coll[ranking[i]].metadata]]

SampleLimit == 100

StatsOutcomes == {"ok", "count_error", "query_error"}

\* the sets of entries collection.query(query_texts=["sample"], n_results=n) may
\* return: n of the entries, or all of them when there are no more than n; which n
\* are nearest to the query is the store's choice
RECURSIVE Samples(_, _)
Samples(ids, n) ==
    IF Cardinality(ids) <= n THEN {ids}
    ELSE UNION {Samples(ids \ {id}, n) : id \in ids}

\* the samples a call of get_stats may get: n_results=min(count, 100)
StatsSamples(coll) == Samples(DOMAIN coll, Min(Cardinality(DOMAIN coll), SampleLimit))

\* mutant of CategoryCounts: every category of the sample counts once
CategoryPresence(coll, ids) == [c \in {coll[id].metadata.category : id \in ids} |-> 1]

\* categories[category] = categories.get(category, 0) + 1, over the sampled entries
CategoryCounts(coll, ids) ==
    [c \in {coll[id].metadata.category : id \in ids} |->
        Cardinality({id \in ids : coll[id].metadata.category = c})]

\* the try block of get_stats: [raised, ret]; `sampled` is what the query returns
get_stats_body(coll, stats, sampled) ==
    IF stats = "count_error" THEN [raised |-> TRUE, ret |-> <<>>]
    ELSE IF Cardinality(DOMAIN coll) > 0
         THEN IF stats = "query_error" THEN [raised |-> TRUE, ret |-> <<>>]
              ELSE [raised |-> FALSE,
                    ret |-> [total_documents |-> Cardinality(DOMAIN coll),
                             categories |-> CategoryCounts(coll, sampled)]]
         ELSE [raised |-> FALSE, ret |-> [total_documents |-> 0, categories |-> <<>>]]

\* except Exception: the zero statistics with the error's text
stats_absorbed(r) ==
    IF r.raised
    THEN [raised |-> FALSE,
          ret |-> [total_documents |-> 0, categories |-> <<>>, error |-> "str(e)"]]
    ELSE r

\* mutant of get_stats: no except clause around the body
get_stats_uncaught(coll, stats, sampled) == get_stats_body(coll, stats, sampled)

get_stats(coll, stats, sampled) == stats_absorbed(get_stats_body(coll, stats, sampled))

(***************************************************************************)
(* processor/management/commands/process_documents.py. The dataset is a    *)
(* directory of category directories; a file "docs/scan/b.JPG" is the file  *)
(* b.JPG of the category directory scan.                                   *)
(***************************************************************************)
\* Path.suffix: the name from its last dot on, "" without one
PathSuffix(name) ==
    LET parts == Split(name, ".")
    IN  IF Len(parts) < 2 \/ (Len(parts) = 2 /\ parts[1] = "") THEN ""
        ELSE "." \o parts[Len(parts)]

\* the name of the directory a file is in
CategoryDir(path) == LET parts == Split(path, PathSep) IN parts[Len(parts) - 1]

ImageExtensions == {".jpg", ".jpeg", ".png", ".tiff", ".tif", ".bmp"}

\* --category: "" is the option left out
CategoryOptions == {"", "scan"}

\* _get_documents: the paths of the documents, sorted by (category, name), which is
\* the order of FilePool; a limit of None, 0 or less takes them all
_get_documents(dir, category, limit) ==
    LET documents ==
            SelectSeq(FilePool,
                      LAMBDA f : /\ f \in dir
                                 /\ category # "" => CategoryDir(f) = category
                                 /\ Lower(PathSuffix(Basename(f))) \in ImageExtensions)
    IN  IF limit > 0 THEN SubSeq(documents, 1, Min(limit, Len(documents))) ELSE documents

\* _get_documents, tabulated over the options of the model
CommandDocuments ==
    [dir \in Directories, category \in CategoryOptions, limit \in Limits |->
        _get_documents(dir, category, limit)] @@ <<>>

\* the keyword parameters of DocumentPipeline.search
SearchKeywords == {"query", "n_results"}

\* _document_exists: pipeline.search(filename, limit=1), then a result with that
\* filename; an exception of the call (a TypeError for a keyword search does not
\* take) makes it False
_document_exists(coll, file_path, ranking, query) ==
    IF ~({"limit"} \subseteq SearchKeywords) THEN FALSE
    ELSE \E result \in {search(coll, ranking, 1, query)[i] :
                            i \in 1..Len(search(coll, ranking, 1, query))} :
             result.metadata.filename = Basename(file_path)

\* the filenames the collection holds an entry for
StoredFilenames(coll) == {coll[id].metadata.filename : id \in DOMAIN coll}

\* pipeline = DocumentPipeline(); documents = self._get_documents(...); with no
\* document the command returns at once
CommandStart(dir, category, limit, skip_existing) ==
    /\ batch.pc = "idle"
    /\ ner_pipeline' \in BOOLEAN
    /\ \E documents \in {CommandDocuments[dir, category, limit]} :
           IF Len(documents) = 0
           THEN /\ batch' = IdleBatch
                /\ last' = [op |-> "command", raised |-> FALSE, found |-> 0,
                            processed_count |-> 0, error_count |-> 0,
                            skip_existing |-> skip_existing, invoked |-> {},
                            existing |-> {},
                            stats |-> [outcome |-> "not_called", count |-> 0,
                                       call |-> [raised |-> FALSE, ret |-> <<>>]]]
           ELSE /\ batch' = [pc |-> "command", files |-> documents,
                             found |-> Len(documents), processed_count |-> 0,
                             error_count |-> 0, skip_existing |-> skip_existing,
                             invoked |-> {}, existing |-> {}]
                /\ last' = NoCall
    /\ UNCHANGED <<temp_files, collection, json_file, csv_file, probe>>

\* one iteration of: for doc_info in documents. `existing` collects the documents
\* whose filename the collection held when their turn came, `invoked` those
\* process_single_document was called for
CommandStep(env) ==
    /\ batch.pc = "command"
    /\ Len(batch.files) > 0
    /\ \E exists \in {_document_exists(collection, batch.files[1], ranking, query) :
                          ranking \in Rankings(DOMAIN collection), query \in QueryOutcomes} :
       IF batch.skip_existing /\ exists
       THEN /\ batch' = [batch EXCEPT !.files = Tail(@),
                                      !.existing = @ \cup {batch.files[1]}]
            /\ UNCHANGED collection
       ELSE \E r \in {process_single_document(batch.files[1], collection, ner_pipeline, env)} :
                /\ collection' = r.coll
                /\ batch' = [batch EXCEPT
                                 !.files = Tail(@),
                                 !.processed_count =
                                     IF ~r.raised /\ Len(r.ret) > 0 THEN @ + 1 ELSE @,
                                 !.error_count =
                                     IF r.raised \/ Len(r.ret) = 0 THEN @ + 1 ELSE @,
                                 !.invoked = @ \cup {batch.files[1]},
                                 !.existing =
                                     IF Basename(batch.files[1]) \in StoredFilenames(collection)
                                     THEN @ \cup {batch.files[1]} ELSE @]
    /\ UNCHANGED <<temp_files, ner_pipeline, json_file, csv_file, last, probe>>

\* the summary, then stats = pipeline.get_stats() inside its own try
CommandReturn(stats, sampled) ==
    /\ batch.pc = "command"
    /\ Len(batch.files) = 0
    /\ last' = [op |-> "command", raised |-> FALSE, found |-> batch.found,
                processed_count |-> batch.processed_count,
                error_count |-> batch.error_count,
                skip_existing |-> batch.skip_existing, invoked |-> batch.invoked,
                existing |-> batch.existing,
                stats |-> [outcome |-> stats, count |-> Cardinality(DOMAIN collection),
                           call |-> get_stats(collection, stats, sampled)]]
    /\ batch' = IdleBatch
    /\ UNCHANGED <<temp_files, ner_pipeline, collection, json_file, csv_file, probe>>

NextCommand ==
    \/ \E dir \in Directories, category \in CategoryOptions, limit \in Limits,
          skip_existing \in BOOLEAN : CommandStart(dir, category, limit, skip_existing)
    \/ \E env \in BatchEnvs : CommandStep(env)
    \/ \E stats \in StatsOutcomes, sampled \in StatsSamples(collection) :
           CommandReturn(stats, sampled)

SpecCommand == Init /\ [][NextCommand]_vars

(***************************************************************************)
(* Properties of the management command, checked under SpecCommand.        *)
(***************************************************************************)
\* C15: get_stats never raises; on an empty collection whose count succeeds it
\* returns exactly total_documents 0 and no categories; when the count fails, or
\* the query on a collection with entries fails, it returns total_documents 0, no
\* categories and an error field.
C15_StatsNeverRaise ==
    last.op = "command" /\ last.stats.outcome # "not_called" =>
        /\ ~last.stats.call.raised
        /\ last.stats.count = 0 /\ last.stats.outcome # "count_error" =>
               last.stats.call.ret = [total_documents |-> 0, categories |-> <<>>]
        /\ \/ last.stats.outcome = "count_error"
           \/ last.stats.outcome = "query_error" /\ last.stats.count > 0
           => /\ DOMAIN last.stats.call.ret = {"total_documents", "categories", "error"}
              /\ last.stats.call.ret.total_documents = 0
              /\ last.stats.call.ret.categories = <<>>

\* the query of get_stats failed on a collection with entries
C15_Witness ==
    /\ last.op = "command"
    /\ last.stats.outcome = "query_error"
    /\ last.stats.count > 0
    /\ ~last.stats.call.raised
    /\ "error" \in DOMAIN last.stats.call.ret

\* C16: with --skip-existing, process_single_document is not invoked for a document
\* whose filename the collection already holds, and such a document is counted
\* neither as processed nor as an error.
C16_ExistingSkipped ==
    last.op = "command" /\ last.skip_existing =>
        /\ last.existing \cap last.invoked = {}
        /\ last.processed_count + last.error_count
               <= last.found - Cardinality(last.existing)

(***************************************************************************)
(* Properties of process_single_document, checked under SpecSingle.        *)
(***************************************************************************)
\* every string in some list of an entities dictionary
EntityValues(entities) ==
    UNION {{entities[k][i] : i \in 1..Len(entities[k])} : k \in DOMAIN entities}

\* C1: when the NER model call raises, the extractor returns what the regex-only
\* extractor finds in the same text with the six-kind pattern table, and
\* process_single_document returns a record (carrying those entities) for the document.
C1_NerFailureFallsBack ==
    (last.op = "single" /\ last.trace.ner_raised) =>
        /\ Len(last.ret) = 1
        /\ last.ret[1].entities = extract_entities(last.ret[1].text, ENTITY_PATTERNS)

\* C2: when the NER model is not loaded, every email, phone, date and amount the regex
\* table matches in the text of a returned record appears in the record's entities.
C2_NoModelFallsBackToRegex ==
    (last.op = "single" /\ ~ner_pipeline /\ Len(last.ret) = 1) =>
        LET doc == last.ret[1]
            matched == extract_entities(doc.text, ENTITY_PATTERNS)
        IN  \A k \in DOMAIN matched \cap {"email", "phone", "date", "amount"} :
                \A i \in 1..Len(matched[k]) : matched[k][i] \in EntityValues(doc.entities)

\* C5: reprocessing a file overwrites its entry: once process_single_document has
\* returned a record, the collection holds under the record's id the content of that
\* record, the latest processing of the file.
C5_ReprocessingOverwrites ==
    (last.op = "single" /\ Len(last.ret) = 1) =>
        /\ last.ret[1].id \in DOMAIN collection
        /\ collection[last.ret[1].id] = Entry(last.ret[1])

\* C22: every record process_single_document returns has a non-empty text and a
\* word_count of at least 1 that is the number of whitespace-separated tokens of the
\* text, and no entry of the collection has an empty document.
C22_RecordsHaveText ==
    /\ (last.op = "single" /\ Len(last.ret) = 1) =>
           /\ last.ret[1].text # ""
           /\ last.ret[1].word_count >= 1
           /\ last.ret[1].word_count = Len(SelectSeq(Split(last.ret[1].text, " "),
                                                     LAMBDA w : w # ""))
    /\ \A id \in DOMAIN collection : collection[id].document # ""

C18_ShortTextDropped ==
    [][last'.op = "single" /\ last'.trace.short =>
           /\ ~last'.raised
           /\ last'.ret = <<>>
           /\ collection' = collection
           /\ last'.trace.calls = <<"extract_text_from_image">>
           /\ last'.trace.store = "not_called"]_vars

\* a call whose OCR read a few characters, fewer than 10, into a collection that
\* holds a document
C18_Witness ==
    /\ last.op = "single"
    /\ last.trace.short
    /\ Len(last.trace.text) > 0
    /\ last.trace.calls = <<"extract_text_from_image">>
    /\ Len(last.ret) = 0
    /\ collection # <<>>

(***************************************************************************)
(* Properties of process_documents, checked under Spec.                    *)
(***************************************************************************)
\* C3: in batch mode a failure of the collection's add is never raised past
\* process_documents, which returns a list.
C3_StoreFailureNotRaised ==
    (last.op = "batch" /\ last.store = "add_error") => ~last.raised

\* the files named by the records of a list
FilesOf(documents) == {documents[i].file_path : i \in 1..Len(documents)}

\* C6 as stated: no file whose OCR text is empty, whitespace-only or shorter than 10
\* characters once trimmed is in the output of process_documents, whose length is at
\* most the number of input files and at most limit.
C6_AtMostLimit ==
    last.op = "batch" =>
        /\ FilesOf(last.ret) \cap last.short = {}
        /\ Len(last.ret) <= last.found
        /\ Len(last.ret) <= last.limit

\* C6: no file whose OCR text is empty, whitespace-only or shorter than 10 characters
\* once trimmed is in the output of process_documents, whose length is at most the
\* number of input files and, when limit is not negative, at most limit.
C6_ShortTextExcluded ==
    last.op = "batch" =>
        /\ FilesOf(last.ret) \cap last.short = {}
        /\ Len(last.ret) <= last.found
        /\ last.limit >= 0 => Len(last.ret) <= last.limit

\* of three files found and two processed, one had too little text and one is returned
C6_Witness ==
    /\ last.op = "batch"
    /\ last.found = 3
    /\ last.limit = 2
    /\ Cardinality(last.short) = 1
    /\ Len(last.ret) = 1

\* C7: when process_documents returns a non-empty list, results.json holds exactly the
\* returned records and summary.csv exactly one row per returned record, in order;
\* whatever an earlier run wrote is gone.
C7_SinksHoldReturned ==
    (last.op = "batch" /\ ~last.raised /\ Len(last.ret) > 0) =>
        /\ json_file = last.ret
        /\ Len(csv_file) = Len(last.ret)
        /\ \A i \in 1..Len(last.ret) :
              /\ csv_file[i].filename = last.ret[i].filename
              /\ csv_file[i].category = last.ret[i].category
              /\ csv_file[i].word_count = last.ret[i].word_count

\* three files, one with too little OCR text: two records returned, two entries per sink
C7_Witness ==
    /\ last.op = "batch"
    /\ ~last.raised
    /\ last.found = 3
    /\ last.limit = 3
    /\ Cardinality(last.short) = 1
    /\ Len(last.ret) = 2
    /\ Len(json_file) = 2
    /\ Len(csv_file) = 2

\* C13: a batch in which no document is processed successfully returns an empty list
\* without raising, and writes neither to the collection nor to results.json or
\* summary.csv: an iteration of the loop that leaves the batch without a success leaves
\* the collection as it was, and so does the return, which also leaves both files.
C13_ZeroSuccesses ==
    [][/\ (batch.pc = "loop" /\ batch'.pc = "loop" /\ Len(batch'.processed_docs) = 0)
              => collection' = collection
       /\ (batch.pc = "loop" /\ batch'.pc = "idle" /\ Len(batch.processed_docs) = 0)
              => /\ ~last'.raised
                 /\ last'.ret = <<>>
                 /\ collection' = collection
                 /\ json_file' = json_file
                 /\ csv_file' = csv_file]_vars

\* a batch over files none of which had enough text has returned the empty list; the
\* entries of an earlier batch are still in the collection and in both files
C13_Witness ==
    /\ last.op = "batch"
    /\ ~last.raised
    /\ last.ret = <<>>
    /\ last.found > 0
    /\ Cardinality(last.short) = last.found
    /\ last.store = "not_called"
    /\ DOMAIN collection # {}
    /\ Len(json_file) > 0
    /\ Len(csv_file) > 0

\* C23: within one process_documents call no record id is handed to the
\* collection's add more than once.
C23_StoredOnce ==
    last.op = "batch" =>
        \A i, j \in 1..Len(last.submitted) :
            last.submitted[i] = last.submitted[j] => i = j

\* the place of a file in the sorted list of the model's files
PoolIndex(file_path) == CHOOSE i \in 1..Len(FilePool) : FilePool[i] = file_path

\* C24: the list process_documents returns holds, for the files that succeeded, the
\* very records each file yields when processed alone, in the order of the sorted
\* file list, and the id of each is in the collection; a file that failed or was
\* dropped changes none of them.
C24_IndependentInOrder ==
    (last.op = "batch" /\ ~last.raised) =>
        /\ last.ret = last.alone
        /\ \A i, j \in 1..Len(last.ret) :
               i < j => PoolIndex(last.ret[i].file_path) < PoolIndex(last.ret[j].file_path)
        /\ \A i \in 1..Len(last.ret) : last.ret[i].id \in DOMAIN collection

\* three files found, the one between two successes dropped for its short text
C24_Witness ==
    /\ last.op = "batch"
    /\ ~last.raised
    /\ last.found = 3
    /\ last.short = {"docs/scan/b.JPG"}
    /\ Len(last.ret) = 2
    /\ last.ret[1].file_path = "docs/invoice/a.jpg"
    /\ last.ret[2].file_path = "docs/scan/c.jpeg"

(***************************************************************************)
(* SpecClean: clean_text applied to every raw text over CleanAlphabet of   *)
(* length at most MaxCleanLen, and applied again to its own result.        *)
(***************************************************************************)
MaxCleanLen == 5

CleanAlphabet == {"a", " ", "\n", "#"}

RECURSIVE StringsUpTo(_, _)
StringsUpTo(alphabet, n) ==
    IF n = 0 THEN {""}
    ELSE LET S == StringsUpTo(alphabet, n - 1)
         IN  S \cup {s \o c : s \in {x \in S : Len(x) = n - 1}, c \in alphabet}

CleanInputs == StringsUpTo(CleanAlphabet, MaxCleanLen)

InitClean ==
    /\ probe \in {[fn |-> "clean_text", input |-> t, out |-> <<>>] : t \in CleanInputs}
    /\ ner_pipeline = TRUE
    /\ collection = <<>>
    /\ json_file = <<>>
    /\ csv_file = <<>>
    /\ temp_files = {}
    /\ batch = IdleBatch
    /\ last = NoCall

CleanFirst ==
    /\ probe.fn = "clean_text"
    /\ Len(probe.out) = 0
    /\ probe' = [probe EXCEPT !.out = <<clean_text(probe.input)>>]
    /\ UNCHANGED <<temp_files, ner_pipeline, collection, json_file, csv_file, batch, last>>

CleanAgain ==
    /\ probe.fn = "clean_text"
    /\ Len(probe.out) = 1
    /\ probe' = [probe EXCEPT !.out = Append(@, clean_text(probe.out[1]))]
    /\ UNCHANGED <<temp_files, ner_pipeline, collection, json_file, csv_file, batch, last>>

NextClean == CleanFirst \/ CleanAgain

SpecClean == InitClean /\ [][NextClean]_vars

\* C4: clean_text is idempotent: cleaning a cleaned text changes nothing.
C4_CleanIdempotent ==
    (probe.fn = "clean_text" /\ Len(probe.out) = 2) => probe.out[2] = probe.out[1]

\* the lines of the raw text of the probe: its segments between line breaks
RawLines == Split(probe.input, "\n")

\* C14: clean_text discards every line of the raw text whose trimmed length is at most
\* 2 and joins the others with single spaces; so the result for a raw text of several
\* lines, each of trimmed length at most 2, is empty.
C14_ShortLinesDiscarded ==
    (/\ probe.fn = "clean_text"
     /\ Len(probe.out) >= 1
     /\ Len(RawLines) > 1
     /\ \A i \in 1..Len(RawLines) : Len(Strip(RawLines[i])) <= MinLineLen)
        => probe.out[1] = ""

(***************************************************************************)
(* SpecClassify: _classify_document applied to every path of at most       *)
(* MaxPathDirs directories and every text of at most MaxTextWords words.   *)
(***************************************************************************)
MaxPathDirs == 2

MaxTextWords == 2

PathDirs == {"data", "invoice", "letter", "Memo"}

TextWords == {"Invoice", "inFORMation", "CV", "Dear", "subject:", "lorem"}

RECURSIVE PathsUpTo(_)
PathsUpTo(n) ==
    IF n = 0 THEN {"img001.jpg"}
    ELSE PathsUpTo(n - 1) \cup {d \o PathSep \o p : d \in PathDirs, p \in PathsUpTo(n - 1)}

RECURSIVE TextsUpTo(_)
TextsUpTo(n) ==
    IF n = 0 THEN {""}
    ELSE TextsUpTo(n - 1) \cup TextWords
             \cup {w \o " " \o t : w \in TextWords, t \in TextsUpTo(n - 1) \ {""}}

InitClassify ==
    /\ probe \in {[fn |-> "_classify_document", input |-> <<p, t>>, out |-> <<>>] :
                      p \in PathsUpTo(MaxPathDirs), t \in TextsUpTo(MaxTextWords)}
    /\ ner_pipeline = TRUE
    /\ collection = <<>>
    /\ json_file = <<>>
    /\ csv_file = <<>>
    /\ temp_files = {}
    /\ batch = IdleBatch
    /\ last = NoCall

Classify ==
    /\ probe.fn = "_classify_document"
    /\ Len(probe.out) = 0
    /\ probe' = [probe EXCEPT !.out = <<_classify_document(probe.input[1], probe.input[2])>>]
    /\ UNCHANGED <<temp_files, ner_pipeline, collection, json_file, csv_file, batch, last>>

NextClassify == Classify

SpecClassify == InitClassify /\ [][NextClassify]_vars

Classified == probe.fn = "_classify_document" /\ Len(probe.out) = 1

ProbeParts == Split(probe.input[1], PathSep)

ProbeHasCategoryPart == \E i \in 1..Len(ProbeParts) : InCategories(ProbeParts[i])

\* C8: a path with a component equal to a known category is classified as the
\* first such component in path order, whatever the text says.
C8_PathCategoryWins ==
    (Classified /\ ProbeHasCategoryPart) =>
        \E i \in 1..Len(ProbeParts) :
            /\ InCategories(ProbeParts[i])
            /\ \A j \in 1..(i - 1) : ~InCategories(ProbeParts[j])
            /\ probe.out[1] = ProbeParts[i]

\* C8 witness: two different category folders in the path and a text holding a
\* keyword of yet another category; the first folder is the answer.
C8_Witness ==
    /\ Classified
    /\ probe.input[1] = "letter/invoice/img001.jpg"
    /\ AnyOccurs(ResumeKeywords, Lower(probe.input[2]))
    /\ probe.out[1] = "letter"

KeywordPriority == <<"invoice", "form", "resume", "letter", "memo">>

KeywordsOf(c) ==
    CASE c = "invoice" -> InvoiceKeywords
      [] c = "form" -> FormKeywords
      [] c = "resume" -> ResumeKeywords
      [] c = "letter" -> LetterKeywords
      [] c = "memo" -> MemoKeywords

ProbeHit(k) == AnyOccurs(KeywordsOf(KeywordPriority[k]), Lower(probe.input[2]))

\* C9: with no category folder in the path the result is the first category, in the
\* order invoice, form, resume, letter, memo, one of whose keywords occurs in the
\* lower-cased text, and unknown iff no keyword occurs; the result is always a
\* known category or unknown.
C9_KeywordPriority ==
    Classified =>
        /\ InCategories(probe.out[1]) \/ probe.out[1] = "unknown"
        /\ ~ProbeHasCategoryPart =>
              /\ probe.out[1] = "unknown" <=> \A k \in 1..Len(KeywordPriority) : ~ProbeHit(k)
              /\ \A k \in 1..Len(KeywordPriority) :
                    (ProbeHit(k) /\ \A j \in 1..(k - 1) : ~ProbeHit(j))
                        => probe.out[1] = KeywordPriority[k]

\* C9 witness: no category folder, a text with a form keyword (inside another
\* word, upper case) and a letter keyword; form comes first in the order.
C9_Witness ==
    /\ Classified
    /\ probe.input = <<"data/Memo/img001.jpg", "Dear inFORMation">>
    /\ probe.out[1] = "form"

(***************************************************************************)
(* SpecExtract: _extract_entities_with_llm applied to a text, with the     *)
(* model loaded or not, the model call raising or reporting a run of the   *)
(* spans of SpanPool, and either iteration order of a set.                 *)
(***************************************************************************)
RECURSIVE Repeat(_, _)
Repeat(s, n) ==
    IF n = 0 THEN ""
    ELSE IF n % 2 = 1 THEN s \o Repeat(s, n - 1)
    ELSE Repeat(s \o s, n \div 2)

\* TruncateLen characters of filler
Padding == Repeat("- ", TruncateLen \div 2)

ExtractTexts ==
    {"", "  ",
     "Ann of Acme in Rome, A x@y.io $5 555-123-4567",
     "x@y.io x@y.io $5 $ 5 $5 mail 7",
     Padding \o "Ann of Acme in Rome x@y.io $5 555-123-4567",
     "Ann x@y.io " \o Padding \o "Acme a@b.io $7"}

SpanPool ==
    <<[entity_group |-> "PER", word |-> "Ann", score |-> 99],
      [entity_group |-> "org", word |-> "Acme", score |-> 81],
      [entity_group |-> "LOC", word |-> "Rome", score |-> 80],
      [entity_group |-> "PERSON", word |-> " Ann", score |-> 90],
      [entity_group |-> "PER", word |-> "A", score |-> 99],
      [entity_group |-> "MISC", word |-> "x@y.io", score |-> 95],
      [entity_group |-> "MISC", word |-> "mail 7", score |-> 85]>>

\* the runs of consecutive spans of the pool
SpanRuns ==
    {SubSeq(SpanPool, i, j) : i \in 1..Len(SpanPool), j \in 0..Len(SpanPool)}

ExtractNers ==
    {[raises |-> TRUE, spans |-> <<>>]} \cup {[raises |-> FALSE, spans |-> r] : r \in SpanRuns}

InitExtract ==
    /\ probe \in {[fn |-> "_extract_entities_with_llm",
                   input |-> [text |-> t, ner_loaded |-> l, ner |-> n, rev |-> r],
                   out |-> <<>>] :
                      t \in ExtractTexts, l \in BOOLEAN, n \in ExtractNers, r \in BOOLEAN}
    /\ ner_pipeline = TRUE
    /\ collection = <<>>
    /\ json_file = <<>>
    /\ csv_file = <<>>
    /\ temp_files = {}
    /\ batch = IdleBatch
    /\ last = NoCall

Extract ==
    /\ probe.fn = "_extract_entities_with_llm"
    /\ Len(probe.out) = 0
    /\ probe' = [probe EXCEPT !.out = <<_extract_entities_with_llm(
                                            probe.input.text, probe.input.ner_loaded,
                                            probe.input.ner, probe.input.rev)>>]
    /\ UNCHANGED <<temp_files, ner_pipeline, collection, json_file, csv_file, batch, last>>

NextExtract == Extract

SpecExtract == InitExtract /\ [][NextExtract]_vars

\* the extractor has been applied
Extracted == probe.fn = "_extract_entities_with_llm" /\ Len(probe.out) = 1

\* the model is called, and the call raises
ModelCallRaises ==
    probe.input.ner_loaded /\ Strip(probe.input.text) # "" /\ probe.input.ner.raises

\* C11: whenever the extractor completes without the model call raising (empty text
\* and absent model included), it returns a mapping with exactly the 8 keys persons,
\* organizations, locations, dates, amounts, emails, phones, addresses, each a list.
C11_EightKinds ==
    (Extracted /\ ~ModelCallRaises) =>
        /\ ~probe.out[1].raised
        /\ DOMAIN probe.out[1].value =
               {"persons", "organizations", "locations", "dates", "amounts", "emails",
                "phones", "addresses"}
        /\ \A k \in DOMAIN probe.out[1].value :
               DOMAIN probe.out[1].value[k] = 1..Len(probe.out[1].value[k])

\* the model is absent: the 8 keys are there, each with the empty list
C11_Witness ==
    /\ Extracted
    /\ ~probe.input.ner_loaded
    /\ probe.input.text = "Ann of Acme in Rome, A x@y.io $5 555-123-4567"
    /\ Cardinality(DOMAIN probe.out[1].value) = 8
    /\ \A k \in DOMAIN probe.out[1].value : probe.out[1].value[k] = <<>>

\* the extractor has been applied with the model loaded and answering
ModelAnswered ==
    /\ Extracted
    /\ probe.input.ner_loaded
    /\ Strip(probe.input.text) # ""
    /\ ~probe.input.ner.raises

\* the text after its first 512 characters
Beyond(text) ==
    IF Len(text) > TruncateLen THEN SubSeq(text, TruncateLen + 1, Len(text)) ELSE ""

\* the members of a list
Members(seq) == {seq[i] : i \in 1..Len(seq)}

\* C19: in the model-assisted extractor every email, phone number and dollar amount
\* found after character 512 of the text is in emails, phones or amounts, while every
\* person, organization and location of the result occurs within the first 512
\* characters, the only ones the model sees.
C19_ModelSeesPrefixOnly ==
    ModelAnswered =>
        /\ ~probe.out[1].raised
        /\ Members(findall(EmailPattern, Beyond(probe.input.text), FALSE))
               \subseteq Members(probe.out[1].value["emails"])
        /\ Members(JoinEach(findall(LlmPhonePattern, Beyond(probe.input.text), FALSE), "-"))
               \subseteq Members(probe.out[1].value["phones"])
        /\ Members(findall(LlmMoneyPattern, Beyond(probe.input.text), FALSE))
               \subseteq Members(probe.out[1].value["amounts"])
        /\ \A k \in {"persons", "organizations", "locations"} :
               \A v \in Members(probe.out[1].value[k]) :
                   Occurs(v, SubSeq(probe.input.text, 1, Min(Len(probe.input.text), 512)))

\* names, an email, an amount and a phone number after 512 characters of filler, the
\* model's pool holding the names with high scores: the regex kinds are found, no
\* name is
C19_Witness ==
    /\ ModelAnswered
    /\ probe.input.text = Padding \o "Ann of Acme in Rome x@y.io $5 555-123-4567"
    /\ probe.input.ner.spans = SubSeq(SpanPool, 1, 2)
    /\ probe.out[1].value["emails"] = <<"x@y.io">>
    /\ probe.out[1].value["amounts"] = <<"$5">>
    /\ probe.out[1].value["phones"] = <<"555-123-4567">>
    /\ probe.out[1].value["persons"] = <<>>
    /\ probe.out[1].value["organizations"] = <<>>

\* C20: in the model-assisted extractor a value of persons, organizations,
\* locations or dates comes from a span of the model with a confidence strictly
\* above 0.8 (80 hundredths), and no kind's list holds a value twice or a value
\* whose trimmed length is 1 or less.
C20_ThresholdAndFilter ==
    ModelAnswered =>
        /\ ~probe.out[1].raised
        /\ \A k \in {"persons", "organizations", "locations", "dates"} :
               \A v \in Members(probe.out[1].value[k]) :
                   \E i \in 1..Len(probe.input.ner.spans) :
                       /\ Strip(probe.input.ner.spans[i].word) = v
                       /\ probe.input.ner.spans[i].score > 80
        /\ \A k \in DOMAIN probe.out[1].value :
               /\ Cardinality(Members(probe.out[1].value[k])) = Len(probe.out[1].value[k])
               /\ \A v \in Members(probe.out[1].value[k]) : Len(Strip(v)) > 1

\* the model reports Ann twice, Rome at exactly 0.8 and the one-letter name A: Ann is
\* kept once, Rome and A are not kept
C20_Witness ==
    /\ ModelAnswered
    /\ probe.input.text = "Ann of Acme in Rome, A x@y.io $5 555-123-4567"
    /\ probe.input.ner.spans = SubSeq(SpanPool, 1, 5)
    /\ probe.out[1].value["persons"] = <<"Ann">>
    /\ probe.out[1].value["organizations"] = <<"Acme">>
    /\ probe.out[1].value["locations"] = <<>>

(***************************************************************************)
(* SpecRegex: extract_entities applied, twice, to every text of at most    *)
(* MaxRegexWords of the words RegexWords with the table ENTITY_PATTERNS.   *)
(***************************************************************************)
MaxRegexWords == 2

RegexWords == {"x@y.io", "$5", "555-123-4567", "1/2/24", "2024-1-2", "bill 7"}

RECURSIVE RegexTexts(_)
RegexTexts(n) ==
    IF n = 0 THEN {""}
    ELSE RegexTexts(n - 1) \cup RegexWords
             \cup {w \o " " \o t : w \in RegexWords, t \in RegexTexts(n - 1) \ {""}}

InitRegex ==
    /\ probe \in {[fn |-> "extract_entities", input |-> t, out |-> <<>>] :
                      t \in RegexTexts(MaxRegexWords)}
    /\ ner_pipeline = TRUE
    /\ collection = <<>>
    /\ json_file = <<>>
    /\ csv_file = <<>>
    /\ temp_files = {}
    /\ batch = IdleBatch
    /\ last = NoCall

RegexFirst ==
    /\ probe.fn = "extract_entities"
    /\ Len(probe.out) = 0
    /\ probe' = [probe EXCEPT !.out = <<extract_entities(probe.input, ENTITY_PATTERNS)>>]
    /\ UNCHANGED <<temp_files, ner_pipeline, collection, json_file, csv_file, batch, last>>

RegexAgain ==
    /\ probe.fn = "extract_entities"
    /\ Len(probe.out) = 1
    /\ probe' = [probe EXCEPT !.out = Append(@, extract_entities(probe.input, ENTITY_PATTERNS))]
    /\ UNCHANGED <<temp_files, ner_pipeline, collection, json_file, csv_file, batch, last>>

NextRegex == RegexFirst \/ RegexAgain

SpecRegex == InitRegex /\ [][NextRegex]_vars

\* the index of the first occurrence of x in seq
FirstIndex(seq, x) == CHOOSE i \in 1..Len(seq) : seq[i] = x /\ \A j \in 1..(i - 1) : seq[j] # x

\* `list` holds every element of `all` exactly once, in the order of first occurrence
OnceInFirstSeenOrder(list, all) ==
    /\ {list[i] : i \in 1..Len(list)} = {all[i] : i \in 1..Len(all)}
    /\ \A i, j \in 1..Len(list) : i < j => FirstIndex(all, list[i]) < FirstIndex(all, list[j])

\* C12: extract_entities is deterministic; a kind none of whose patterns matches is
\* omitted; any other kind maps to a non-empty list holding every match of every
\* pattern exactly once in first-seen order (patterns in list order, matches in text
\* order).
C12_RegexExtractor ==
    (probe.fn = "extract_entities" /\ Len(probe.out) >= 1) =>
        /\ DOMAIN probe.out[1] \subseteq DOMAIN ENTITY_PATTERNS
        /\ \A k \in DOMAIN ENTITY_PATTERNS :
              IF AllMatches(ENTITY_PATTERNS[k], probe.input) = <<>>
              THEN k \notin DOMAIN probe.out[1]
              ELSE /\ k \in DOMAIN probe.out[1]
                   /\ probe.out[1][k] # <<>>
                   /\ OnceInFirstSeenOrder(probe.out[1][k],
                                           AllMatches(ENTITY_PATTERNS[k], probe.input))
        /\ Len(probe.out) = 2 => probe.out[2] = probe.out[1]

\* the date the first pattern finds comes before the one the second pattern finds
\* earlier in the text; the kinds without a match are omitted
C12_Witness ==
    /\ probe.fn = "extract_entities"
    /\ probe.input = "2024-1-2 1/2/24"
    /\ Len(probe.out) = 2
    /\ DOMAIN probe.out[1] = {"date"}
    /\ probe.out[1]["date"] = <<"1/2/24", "2024-1-2">>

(***************************************************************************)
(* processor/views.py: DocumentUploadView._calculate_confidence, in        *)
(* hundredths. SpecConfidence applies it to records of every text length   *)
(* around its two thresholds, every category, and up to MaxKindEntities    *)
(* entities in each of three kinds.                                        *)
(***************************************************************************)
BaseConfidence == 50

LongTextLen == 100

VeryLongTextLen == 500

ManyEntities == 3

ConfidenceCap == 95

\* sum(len(entities.get(key, [])) for key in entities)
RECURSIVE TotalEntities(_, _)
TotalEntities(entities, keys) ==
    IF keys = {} THEN 0
    ELSE LET key == CHOOSE k \in keys : TRUE
         IN  Len(entities[key]) + TotalEntities(entities, keys \ {key})

\* the score before the cap
confidence_sum(text_length, total_entities, category) ==
    BaseConfidence
        + (IF text_length > LongTextLen THEN 20 ELSE 0)
        + (IF text_length > VeryLongTextLen THEN 10 ELSE 0)
        + (IF total_entities > 0 THEN 10 ELSE 0)
        + (IF total_entities > ManyEntities THEN 10 ELSE 0)
        + (IF category # "unknown" THEN 10 ELSE 0)

\* mutant of _calculate_confidence: the score is returned without the cap
confidence_uncapped(doc_data) ==
    confidence_sum(Len(doc_data.text), TotalEntities(doc_data.entities, DOMAIN doc_data.entities),
                   doc_data.category)

_calculate_confidence(doc_data) ==
    Min(confidence_sum(Len(doc_data.text),
                       TotalEntities(doc_data.entities, DOMAIN doc_data.entities),
                       doc_data.category),
        ConfidenceCap)

MaxKindEntities == 2

ConfidenceLengths ==
    {0, LongTextLen - 1, LongTextLen, LongTextLen + 1, VeryLongTextLen, VeryLongTextLen + 1}

ConfidenceCategories == {"unknown", "invoice", "memo"}

\* n distinct values of one kind
Items(n) == [i \in 1..n |-> <<"v1", "v2", "v3", "v4">>[i]]

ConfidenceEntities ==
    {[k \in EntityKinds |->
         IF k = "persons" THEN Items(p) ELSE IF k = "emails" THEN Items(e)
         ELSE IF k = "amounts" THEN Items(a) ELSE <<>>] :
        p \in 0..MaxKindEntities, e \in 0..MaxKindEntities, a \in 0..MaxKindEntities}

ConfidenceRecords ==
    {[text |-> Repeat("a", n), entities |-> ents, category |-> c] :
        n \in ConfidenceLengths, ents \in ConfidenceEntities, c \in ConfidenceCategories}

InitConfidence ==
    /\ probe \in {[fn |-> "_calculate_confidence", input |-> d, out |-> <<>>] :
                      d \in ConfidenceRecords}
    /\ ner_pipeline = TRUE
    /\ collection = <<>>
    /\ json_file = <<>>
    /\ csv_file = <<>>
    /\ temp_files = {}
    /\ batch = IdleBatch
    /\ last = NoCall

\* confidence = self._calculate_confidence(doc_data)
CalculateConfidence ==
    /\ probe.fn = "_calculate_confidence"
    /\ Len(probe.out) = 0
    /\ probe' = [probe EXCEPT !.out = <<_calculate_confidence(probe.input)>>]
    /\ UNCHANGED <<temp_files, ner_pipeline, collection, json_file, csv_file, batch, last>>

NextConfidence == CalculateConfidence

SpecConfidence == InitConfidence /\ [][NextConfidence]_vars

\* the number of entities of a record, over all its kinds
EntityCount(doc_data) ==
    Cardinality({<<k, i>> \in EntityKinds \X (1..(3 * (MaxKindEntities + 1))) :
                     i <= Len(doc_data.entities[k])})

\* C17: the confidence is 0.5, plus 0.2 for a text longer than 100 characters, 0.1
\* for one longer than 500, 0.1 for at least one entity, 0.1 for more than 3
\* entities and 0.1 for a category other than unknown, capped at 0.95; it is
\* always between 0.5 and 0.95 (in hundredths).
C17_ConfidenceRange ==
    probe.fn = "_calculate_confidence" /\ Len(probe.out) > 0 =>
        /\ probe.out[1] >= 50
        /\ probe.out[1] <= 95
        /\ \E long \in {IF Len(probe.input.text) > 100 THEN 20 ELSE 0},
              longer \in {IF Len(probe.input.text) > 500 THEN 10 ELSE 0},
              some \in {IF EntityCount(probe.input) >= 1 THEN 10 ELSE 0},
              many \in {IF EntityCount(probe.input) > 3 THEN 10 ELSE 0},
              known \in {IF probe.input.category = "unknown" THEN 0 ELSE 10} :
               probe.out[1] = IF 50 + long + longer + some + many + known > 95 THEN 95
                              ELSE 50 + long + longer + some + many + known

\* a record that earns every gain, 1.1 in all, and is capped
C17_Witness ==
    /\ probe.fn = "_calculate_confidence"
    /\ Len(probe.out) > 0
    /\ Len(probe.input.text) > 500
    /\ EntityCount(probe.input) > 3
    /\ probe.input.category # "unknown"
    /\ probe.out[1] = 95

(***************************************************************************)
(* processor/views.py: DocumentUploadView.post. A request is received,     *)
(* validated and saved to a temporary file in one step; the saved file is  *)
(* processed, the response built and the file cleaned up in the next.      *)
(***************************************************************************)
\* 10 * 1024 * 1024
MaxUploadSize == 10485760

UploadSizes == {1, MaxUploadSize, MaxUploadSize + 1}

\* request.FILES: no file, or a file with a name and a size
Requests ==
    {[has_file |-> FALSE, name |-> "", size |-> 0]} \cup
    {[has_file |-> TRUE, name |-> n, size |-> z] : n \in UploadNames, z \in UploadSizes}

_validate_file(uploaded_file) ==
    /\ ~(uploaded_file.size > MaxUploadSize)
    /\ Lower(SplitExt(uploaded_file.name)) \in {".jpg", ".jpeg"}

\* _save_temp_file: the path of the file NamedTemporaryFile(delete=False) creates
_save_temp_file(uploaded_file, temp_name) == temp_name \o SplitExt(uploaded_file.name)

WriteOutcomes == {"ok", "write_error"}

Response(code, outcome, temp_path, saved, data) ==
    [op |-> "upload", raised |-> FALSE, status |-> code, outcome |-> outcome,
     temp_path |-> temp_path, saved |-> saved, data |-> data]

\* post up to the inner try: the 400 responses, or the temporary file; a write that
\* fails leaves the created file and is answered by the outer except with 500
PostReceive(request, temp_name, write) ==
    /\ batch.pc = "idle"
    /\ IF ~request.has_file
       THEN /\ last' = Response(400, "No file uploaded", "", FALSE, <<>>)
            /\ UNCHANGED <<temp_files, batch>>
       ELSE IF ~_validate_file(request)
       THEN /\ last' = Response(400, "Invalid file", "", FALSE, <<>>)
            /\ UNCHANGED <<temp_files, batch>>
       ELSE /\ _save_temp_file(request, temp_name) \notin temp_files
            /\ temp_files' = temp_files \cup {_save_temp_file(request, temp_name)}
            /\ IF write = "ok"
               THEN /\ batch' = [pc |-> "upload",
                                 temp_path |-> _save_temp_file(request, temp_name)]
                    /\ last' = NoCall
               ELSE /\ batch' = batch
                    /\ last' = Response(500, "Internal server error",
                                        _save_temp_file(request, temp_name), FALSE, <<>>)
    /\ UNCHANGED <<ner_pipeline, collection, json_file, csv_file, probe>>

\* doc_data['text'][:200] + "..." if len(doc_data['text']) > 200 else doc_data['text']
response_data(doc_data) ==
    [success |-> TRUE, document_type |-> doc_data.category,
     confidence |-> _calculate_confidence(doc_data),
     extracted_entities |->
         [k \in EntityKinds |->
             IF k \in DOMAIN doc_data.entities THEN doc_data.entities[k] ELSE <<>>],
     filename |-> doc_data.filename, word_count |-> doc_data.word_count,
     text_preview |-> Preview(doc_data.text)]

\* mutant of cleaned_up: the finally clause removes nothing
not_cleaned_up(files, temp_path) == files

\* finally: if os.path.exists(temp_path): os.remove(temp_path)
cleaned_up(files, temp_path) == files \ {temp_path}

\* the inner try with its finally: process_single_document, then 422 when it
\* returned None, else the response; `fault` is an exception raised while the
\* response is built, answered by the outer except with 500
PostProcess(env, fault) ==
    /\ batch.pc = "upload"
    /\ \E r \in {process_single_document(batch.temp_path, collection, ner_pipeline, env)} :
           /\ collection' = r.coll
           /\ last' = IF Len(r.ret) = 0
                      THEN Response(422, "Processing failed", batch.temp_path, TRUE, <<>>)
                      ELSE IF fault
                      THEN Response(500, "Internal server error", batch.temp_path, TRUE, <<>>)
                      ELSE Response(200, "ok", batch.temp_path, TRUE,
                                    <<response_data(r.ret[1])>>)
    /\ temp_files' = cleaned_up(temp_files, batch.temp_path)
    /\ batch' = IdleBatch
    /\ UNCHANGED <<ner_pipeline, json_file, csv_file, probe>>

NextUpload ==
    \/ \E request \in Requests, temp_name \in TempNames, write \in WriteOutcomes :
           PostReceive(request, temp_name, write)
    \/ \E env \in BatchEnvs, fault \in BOOLEAN : PostProcess(env, fault)

SpecUpload == Init /\ [][NextUpload]_vars

\* C21: a request whose upload was saved to a temporary file leaves no such file
\* behind, whether it is answered with 200, with 422 (processing returned None) or
\* with 500 (an exception during processing): the step that answers it removes
\* exactly its temporary file.
C21_TempFileRemoved ==
    [][batch.pc = "upload" =>
           /\ last'.op = "upload" /\ last'.saved
           /\ last'.status \in {200, 422, 500}
           /\ last'.temp_path = batch.temp_path
           /\ batch.temp_path \in temp_files
           /\ temp_files' = temp_files \ {batch.temp_path}]_vars

\* a request answered with 500 after an exception during processing, its temporary
\* file gone
C21_Witness ==
    /\ last.op = "upload"
    /\ last.saved
    /\ last.status = 500
    /\ last.temp_path \notin temp_files

(***************************************************************************)
(* SpecStats: get_stats called on collections of 1 to SampleLimit + 1       *)
(* stored documents, their categories taken in turn from a list, under     *)
(* every outcome of the store's calls and every sample the query may       *)
(* return.                                                                 *)
(***************************************************************************)
\* str(n) for n >= 0
RECURSIVE ToStr(_)
ToStr(n) ==
    IF n < 10 THEN Char("0123456789", n + 1)
    ELSE ToStr(n \div 10) \o Char("0123456789", (n % 10) + 1)

StatsSizes == {1, 2, 3, SampleLimit - 1, SampleLimit, SampleLimit + 1}

CategoryMixes ==
    {<<"invoice">>, <<"invoice", "memo">>, <<"invoice", "memo", "unknown">>,
     <<"letter", "letter", "form">>, <<"unknown", "resume", "resume", "resume">>,
     <<"memo", "form">>}

\* the i-th stored document of a collection whose categories follow `mix`
StatsDoc(i, mix) ==
    DocData("docs/" \o mix[(i % Len(mix)) + 1] \o "/d" \o ToStr(i) \o ".jpg",
            mix[(i % Len(mix)) + 1], "stored text " \o ToStr(i),
            [k \in EntityKinds |-> <<>>])

\* the entries of the documents from the lo-th to the hi-th
RECURSIVE StatsEntries(_, _, _)
StatsEntries(lo, hi, mix) ==
    IF lo > hi THEN <<>>
    ELSE IF lo = hi THEN StatsDoc(lo, mix).id :> Entry(StatsDoc(lo, mix))
    ELSE StatsEntries(lo, (lo + hi) \div 2, mix) @@ StatsEntries(((lo + hi) \div 2) + 1, hi, mix)

\* the collection after n such documents were added
StatsCollection(n, mix) == StatsEntries(1, n, mix)

InitStats ==
    /\ collection \in {StatsCollection(n, mix) : n \in StatsSizes, mix \in CategoryMixes}
    /\ ner_pipeline = TRUE
    /\ json_file = <<>>
    /\ csv_file = <<>>
    /\ temp_files = {}
    /\ batch = IdleBatch
    /\ last = NoCall
    /\ probe = NoProbe

\* stats = pipeline.get_stats()
GetStats(stats, sampled) ==
    /\ batch.pc = "idle"
    /\ \E r \in {get_stats(collection, stats, sampled)} :
           last' = [op |-> "stats", raised |-> r.raised, ret |-> r.ret, outcome |-> stats]
    /\ UNCHANGED <<ner_pipeline, collection, json_file, csv_file, temp_files, batch, probe>>

NextStats ==
    \E stats \in StatsOutcomes, sampled \in StatsSamples(collection) : GetStats(stats, sampled)

SpecStats == InitStats /\ [][NextStats]_vars

\* the sum of the counts of a histogram
RECURSIVE SumCounts(_, _)
SumCounts(histogram, keys) ==
    IF keys = {} THEN 0
    ELSE LET key == CHOOSE k \in keys : TRUE
         IN  histogram[key] + SumCounts(histogram, keys \ {key})

\* the stored documents of a category
StoredOf(category) == {id \in DOMAIN collection : collection[id].metadata.category = category}

\* C25: on a non-empty collection whose calls succeed, get_stats reports the number of
\* stored documents as total_documents and a histogram whose counts sum to
\* min(total_documents, 100); with at most 100 stored documents the histogram gives,
\* for every category, the number of stored documents of that category.
C25_Histogram ==
    (last.op = "stats" /\ last.outcome = "ok" /\ DOMAIN collection # {}) =>
        /\ ~last.raised
        /\ last.ret.total_documents = Cardinality(DOMAIN collection)
        /\ SumCounts(last.ret.categories, DOMAIN last.ret.categories) =
               (IF last.ret.total_documents < 100 THEN last.ret.total_documents ELSE 100)
        /\ Cardinality(DOMAIN collection) <= 100 =>
               /\ DOMAIN last.ret.categories =
                      {collection[id].metadata.category : id \in DOMAIN collection}
               /\ \A c \in DOMAIN last.ret.categories :
                      last.ret.categories[c] = Cardinality(StoredOf(c))

\* 101 stored documents: the total is 101, the histogram counts 100 of them
C25_Witness ==
    /\ last.op = "stats"
    /\ last.outcome = "ok"
    /\ Cardinality(DOMAIN collection) = 101
    /\ last.ret.total_documents = 101
    /\ SumCounts(last.ret.categories, DOMAIN last.ret.categories) = 100

====
